---------------------------- MODULE Spec2Model ----------------------------
(***************************************************************************)
(* Model of the video-game archive: the Express/MySQL query service        *)
(* (backend/server.js) and the current GameList component                  *)
(* (frontend/src/GameList.jsx, lines 1-221).                               *)
(*                                                                         *)
(* Strings are sequences of one-character strings, so that toLowerCase,    *)
(* includes, startsWith, encodeURIComponent and SQL LIKE are computed the  *)
(* way the code computes them.                                             *)
(***************************************************************************)
EXTENDS Integers, Sequences, FiniteSets, TLC

(***************************************************************************)
(* Bounds of the model.                                                    *)
(***************************************************************************)
\* Number of server search requests the client may issue in one behaviour.
MaxIssued == 2

\* Longest result set the sorting checks start from.
MaxRows == 3

(***************************************************************************)
(* Strings.                                                                *)
(***************************************************************************)
Fields == <<"title", "developer", "publisher", "genre", "platform">>

FieldSet == {Fields[i] : i \in 1..Len(Fields)}

\* JavaScript's undefined (a query parameter that is not in the request).
Undefined == <<"undefined">>

\* JavaScript truthiness of a string-or-undefined value.
Truthy(v) == v # Undefined /\ v # <<>>

\* String.prototype.toLowerCase, one character.
LowerChar(c) ==
  CASE c = "M" -> "m"
    [] c = "S" -> "s"
    [] c = "N" -> "n"
    [] c = "D" -> "d"
    [] OTHER -> c

ToLowerCase(s) == [i \in 1..Len(s) |-> LowerChar(s[i])]

\* String.prototype.includes
Includes(s, sub) ==
  \E i \in 0..(Len(s) - Len(sub)) : SubSeq(s, i + 1, i + Len(sub)) = sub

\* String.prototype.startsWith
StartsWith(s, prefix) ==
  Len(s) >= Len(prefix) /\ SubSeq(s, 1, Len(prefix)) = prefix

(***************************************************************************)
(* The store: MySQL evaluating the text and parameters handed to           *)
(* connection.query.  LIKE under the default (_ci) collation compares      *)
(* case-insensitively; in a pattern % matches any run of characters and _  *)
(* matches any one character.                                              *)
(***************************************************************************)
RECURSIVE Like(_, _)
Like(s, p) ==
  IF p = <<>> THEN s = <<>>
  ELSE IF Head(p) = "%" THEN Like(s, Tail(p)) \/ (s # <<>> /\ Like(Tail(s), p))
  ELSE IF s = <<>> THEN FALSE
  ELSE IF Head(p) = "_" THEN Like(Tail(s), Tail(p))
  ELSE LowerChar(Head(s)) = LowerChar(Head(p)) /\ Like(Tail(s), Tail(p))

SelectAll == "SELECT * FROM videogames"

LikeCond ==
  [title |-> "title LIKE ?", developer |-> "developer LIKE ?",
   publisher |-> "publisher LIKE ?", genre |-> "genre LIKE ?",
   platform |-> "platform LIKE ?"]

\* The column a condition of the query text constrains.
CondField(tok) == CHOOSE f \in FieldSet : LikeCond[f] = tok

\* Whether the text is SQL the store can parse: the bare SELECT, or the SELECT
\* with " WHERE " and one or more conditions separated by " AND ".
WellFormed(query) ==
  /\ Len(query) >= 1
  /\ query[1] = SelectAll
  /\ Len(query) # 2
  /\ Len(query) > 1 =>
       /\ Len(query) % 2 = 1
       /\ query[2] = " WHERE "
       /\ \A i \in 3..Len(query) :
            IF i % 2 = 1 THEN \E f \in FieldSet : LikeCond[f] = query[i]
                         ELSE query[i] = " AND "

\* The conditions of a query text: the tokens after " WHERE " and " AND ".
QueryConds(query) ==
  [i \in 1..((Len(query) - 1) \div 2) |-> query[2 * i + 1]]

\* Rows of the table, in table order, that satisfy every condition with its
\* bound parameter.
SelectRows(rows, conds, params) ==
  SelectSeq(rows,
            LAMBDA g : \A i \in 1..Len(conds) : Like(g[CondField(conds[i])], params[i]))

\* connection.query(query, queryParams) of GET /videogames.  A text that does
\* not parse, or whose placeholders and parameters do not pair up, is
\* rejected by the store.
ExecQuery(rows, query, params) ==
  IF ~WellFormed(query) \/ Len(QueryConds(query)) # Len(params)
  THEN [ok |-> FALSE, rows |-> <<>>]
  ELSE [ok |-> TRUE, rows |-> SelectRows(rows, QueryConds(query), params)]

\* connection.query('SELECT ... WHERE id = ?', [id])
SelectById(rows, id) == SelectSeq(rows, LAMBDA g : g.id = id)


(***************************************************************************)
(* Game records and the catalogs the checks run over.                      *)
(***************************************************************************)
Game(id, title, platform, date, art) ==
  [id |-> id, title |-> title, developer |-> <<"D">>, publisher |-> <<"n">>,
   genre |-> <<"p">>, platform |-> platform, release_date |-> date,
   artwork_url |-> art]

\* release_date is the calendar date <<year, month, day>> of the ISO string.
G1 == Game(1, <<"M", "a">>, <<"s">>, <<1996, 6, 23>>,
           <<"h", "t", "t", "p", ":", "x">>)

G2 == Game(2, <<"m", " ", "b">>, <<"s">>, <<1995, 12, 1>>, <<"c">>)

\* G3's artwork is the relative path "httpe".
G3 == Game(3, <<"S", "o">>, <<"n">>, <<1996, 6, 23>>,
           <<"h", "t", "t", "p", "e">>)

\* Two more records for the sorting checks: G4 has G1's title, G5 has G2's
\* release date and G1's title in lower case.
G4 == Game(4, <<"M", "a">>, <<"n">>, <<1995, 1, 31>>, <<"f">>)

G5 == Game(5, <<"m", "a">>, <<"s">>, <<1995, 12, 1>>, <<"g">>)

FullCatalog == <<G1, G2, G3>>

Catalogs == {<<>>, <<G3>>, FullCatalog}

\* ids a request may name; 9 is in no catalog.
Ids == {1, 3, 9}

(***************************************************************************)
(* backend/server.js: the three read endpoints.                            *)
(***************************************************************************)
VARIABLES
  catalog,       \* rows of the videogames table, in table order
  serverState,   \* "starting", "listening" or "exited" (startServer)
  srvReq,        \* the request the server handled last
  srvOut         \* what its handler did: responses sent, queries run, query logged

serverVars == <<catalog, serverState, srvReq, srvOut>>

Rows200(rows) == [status |-> 200, kind |-> "rows", rows |-> rows, text |-> <<>>]

Record200(g) == [status |-> 200, kind |-> "record", rows |-> <<g>>, text |-> <<>>]

Artwork200(url) == [status |-> 200, kind |-> "artwork", rows |-> <<>>, text |-> url]

NotFound(status) ==
  [status |-> status, kind |-> "message", rows |-> <<>>, text |-> <<"Game not found">>]

DatabaseError ==
  [status |-> 500, kind |-> "error", rows |-> <<>>, text |-> <<"Database error">>]

RECURSIVE JoinAnd(_)
\* conditions.join(' AND ')
JoinAnd(conds) ==
  IF Len(conds) = 0 THEN <<>>
  ELSE IF Len(conds) = 1 THEN conds
  ELSE <<Head(conds), " AND ">> \o JoinAnd(Tail(conds))

\* if (title) { ... }: whether a filter parameter adds a condition.
FilterSupplied(v) == Truthy(v)

\* BuildQuery with the title written into the query text, not bound.
BuildQueryInterpolated(q) ==
  LET active == SelectSeq(Fields, LAMBDA f : FilterSupplied(q[f]))
      bound == SelectSeq(active, LAMBDA f : f # "title")
      conds == [i \in 1..Len(active) |->
                  IF active[i] = "title"
                  THEN CASE q.title = <<"m">> -> "title LIKE '%m%'"
                         [] q.title = <<"_">> -> "title LIKE '%_%'"
                         [] OTHER -> "title LIKE '% %'"
                  ELSE LikeCond[active[i]]]
      params == [i \in 1..Len(bound) |-> <<"%">> \o q[bound[i]] \o <<"%">>]
  IN  IF \E f \in FieldSet : Truthy(q[f])
      THEN [text |-> <<SelectAll, " WHERE ">> \o JoinAnd(conds), params |-> params]
      ELSE [text |-> <<SelectAll>>, params |-> <<>>]

\* BuildQuery with the WHERE keyword appended whether or not a filter is given.
BuildQueryAlwaysWhere(q) ==
  LET active == SelectSeq(Fields, LAMBDA f : FilterSupplied(q[f]))
      conds == [i \in 1..Len(active) |-> LikeCond[active[i]]]
      params == [i \in 1..Len(active) |-> <<"%">> \o q[active[i]] \o <<"%">>]
  IN  [text |-> <<SelectAll, " WHERE ">> \o JoinAnd(conds), params |-> params]

\* The query text and the bound parameters GET /videogames builds from req.query.
BuildQuery(q) ==
  LET active == SelectSeq(Fields, LAMBDA f : FilterSupplied(q[f]))
      conds == [i \in 1..Len(active) |-> LikeCond[active[i]]]
      params == [i \in 1..Len(active) |-> <<"%">> \o q[active[i]] \o <<"%">>]
  IN  IF \E f \in FieldSet : Truthy(q[f])
      THEN [text |-> <<SelectAll, " WHERE ">> \o JoinAnd(conds), params |-> params]
      ELSE [text |-> <<SelectAll>>, params |-> <<>>]

\* GetVideogames with a catch block that ends the process, as startServer's does.
GetVideogamesExitOnError(rows, q, storeOk) ==
  LET b == BuildQuery(q)
      r == IF storeOk THEN ExecQuery(rows, b.text, b.params)
                      ELSE [ok |-> FALSE, rows |-> <<>>]
  IN  [sent |-> IF r.ok THEN <<Rows200(r.rows)>> ELSE <<DatabaseError>>,
       queries |-> 1, exit |-> ~r.ok, text |-> b.text, params |-> b.params]

\* app.get('/videogames'): storeOk is whether connection.query resolves.
GetVideogames(rows, q, storeOk) ==
  LET b == BuildQuery(q)
      r == IF storeOk THEN ExecQuery(rows, b.text, b.params)
                      ELSE [ok |-> FALSE, rows |-> <<>>]
  IN  [sent |-> IF r.ok THEN <<Rows200(r.rows)>> ELSE <<DatabaseError>>,
       queries |-> 1, exit |-> FALSE, text |-> b.text, params |-> b.params]

\* app.get('/videogames/:id')
GetVideogameById(rows, id, storeOk) ==
  LET results == SelectById(rows, id)
  IN  [sent |-> IF ~storeOk THEN <<DatabaseError>>
                ELSE IF Len(results) = 0 THEN <<NotFound(200)>>
                ELSE <<Record200(results[1])>>,
       queries |-> 1, exit |-> FALSE,
       text |-> <<"SELECT * FROM videogames WHERE id = ?">>, params |-> <<id>>]

\* GetArtwork without the results.length check: results[0].artwork_url throws
\* on an empty result and the catch block answers.
GetArtworkNoCheck(rows, id, storeOk) ==
  LET results == SelectById(rows, id)
  IN  [sent |-> IF ~storeOk \/ Len(results) = 0 THEN <<DatabaseError>>
                ELSE <<Artwork200(results[1].artwork_url)>>,
       queries |-> 1, exit |-> FALSE,
       text |-> <<"SELECT artwork_url FROM videogames WHERE id = ?">>,
       params |-> <<id>>]

\* app.get('/videogames/:id/artwork')
GetArtwork(rows, id, storeOk) ==
  LET results == SelectById(rows, id)
  IN  [sent |-> IF ~storeOk THEN <<DatabaseError>>
                ELSE IF Len(results) = 0 THEN <<NotFound(404)>>
                ELSE <<Artwork200(results[1].artwork_url)>>,
       queries |-> 1, exit |-> FALSE,
       text |-> <<"SELECT artwork_url FROM videogames WHERE id = ?">>,
       params |-> <<id>>]

NoRequest == [route |-> "none", q |-> <<>>, id |-> 0, storeOk |-> TRUE]

NoOutcome == [sent |-> <<>>, queries |-> 0, exit |-> FALSE, text |-> <<>>, params |-> <<>>]

\* The values req.query may hold for each filter parameter in the checks.
QueryValues ==
  [title |-> {Undefined, <<>>, <<" ">>, <<"m">>, <<"_">>},
   developer |-> {Undefined, <<"d">>},
   publisher |-> {Undefined, <<>>},
   genre |-> {Undefined, <<" ">>},
   platform |-> {Undefined, <<"s">>, <<"x">>}]

Queries == {q \in [FieldSet -> UNION {QueryValues[f] : f \in FieldSet}] :
              \A f \in FieldSet : q[f] \in QueryValues[f]}


(***************************************************************************)
(* frontend/src/GameList.jsx, the current component (lines 1-221).         *)
(***************************************************************************)
VARIABLES
  videoGamesData,       \* useState([]): the dataset loaded on mount
  filteredGames,        \* useState([]): the server's result set
  searchCriteria,       \* useState({title: '', ...})
  selectedGameArtwork,  \* useState(null)
  noResultsMessage,     \* useState('')
  localFilteredGames,   \* useState([]): the local filter's result set
  isTyping,             \* useState(false)
  mountFetch,           \* the useEffect request: "pending" or "done"
  debounced,            \* lodash debounce: <<>> or <<args>> while its timer runs
  inFlight,             \* axios requests awaiting their response
  issued,               \* number of search requests issued so far
  appliedSeq,           \* issue number of the response applied last (0: none)
  lastEvent             \* the handler or callback that ran last

clientVars ==
  <<videoGamesData, filteredGames, searchCriteria, selectedGameArtwork,
    noResultsMessage, localFilteredGames, isTyping, mountFetch, debounced,
    inFlight, issued, appliedSeq, lastEvent>>

vars == <<serverVars, clientVars>>

Null == <<"null">>

PromptMessage == "Please enter search criteria"

NoResultsText == "No results found that met search criteria"

\* process.env.PUBLIC_URL
PublicUrl == <<"/", "p">>

EmptyCriteria == [f \in FieldSet |-> <<>>]

\* Object.values(searchCriteria).some(Boolean)
SomeCriteria(c) == \E f \in FieldSet : c[f] # <<>>

\* The filter callback of handleSearch.
Matches(g, c) ==
  \A f \in FieldSet :
    c[f] = <<>> \/ Includes(ToLowerCase(g[f]), ToLowerCase(c[f]))

LocalFilter(games, c) == SelectSeq(games, LAMBDA g : Matches(g, c))

\* encodeURIComponent, one character.
EncodeChar(c) ==
  CASE c = " " -> <<"%", "2", "0">>
    [] c = "%" -> <<"%", "2", "5">>
    [] c = ":" -> <<"%", "3", "A">>
    [] OTHER -> <<c>>

RECURSIVE EncodeURIComponent(_)
EncodeURIComponent(s) ==
  IF s = <<>> THEN <<>> ELSE EncodeChar(Head(s)) \o EncodeURIComponent(Tail(s))

\* The percent-decoding of Express's query parser.
RECURSIVE DecodeURIComponent(_)
DecodeURIComponent(s) ==
  IF s = <<>> THEN <<>>
  ELSE IF Head(s) = "%" /\ Len(s) >= 3
       THEN LET hex == SubSeq(s, 2, 3)
                c == CASE hex = <<"2", "0">> -> " "
                       [] hex = <<"2", "5">> -> "%"
                       [] hex = <<"3", "A">> -> ":"
                       [] OTHER -> "?"
            IN  <<c>> \o DecodeURIComponent(SubSeq(s, 4, Len(s)))
       ELSE <<Head(s)>> \o DecodeURIComponent(Tail(s))

\* The query string with the values as they are, not percent-encoded.
QueryStringUnencoded(c) ==
  LET keys == SelectSeq(Fields, LAMBDA f : Truthy(c[f]))
  IN  [i \in 1..Len(keys) |-> <<keys[i], c[keys[i]]>>]

\* The query string of debouncedServerSearch: key=value pairs of the truthy
\* entries, in the order of the criteria's keys.
QueryString(c) ==
  LET keys == SelectSeq(Fields, LAMBDA f : Truthy(c[f]))
  IN  [i \in 1..Len(keys) |-> <<keys[i], EncodeURIComponent(c[keys[i]])>>]

\* req.query as Express parses it from the query string.
ParseQuery(qs) ==
  [f \in FieldSet |->
     IF \E i \in 1..Len(qs) : qs[i][1] = f
     THEN DecodeURIComponent(qs[CHOOSE i \in 1..Len(qs) : qs[i][1] = f][2])
     ELSE Undefined]

(***************************************************************************)
(* What the component renders.                                             *)
(***************************************************************************)
\* line 185: the table is rendered
TableShown == Len(localFilteredGames) > 0 \/ Len(filteredGames) > 0

\* line 198: the rows of the table body
Rows == IF isTyping THEN localFilteredGames ELSE filteredGames

Displayed == IF TableShown THEN Rows ELSE <<>>

\* line 180: the message is rendered
MessageShown ==
  noResultsMessage # "" /\ Len(localFilteredGames) = 0 /\ Len(filteredGames) = 0


(***************************************************************************)
(* Sorting: Array.prototype.sort is stable; the comparators are            *)
(* a.title.localeCompare(b.title) and new Date(a) - new Date(b).           *)
(***************************************************************************)
\* Primary collation weight of a character: space and punctuation before
\* digits before letters, letters in alphabetical order whatever their case.
CollationRank(c) ==
  LET l == LowerChar(c)
  IN  CASE l = " " -> 1
        [] l = "_" -> 2
        [] l = "%" -> 3
        [] l = ":" -> 4
        [] l = "a" -> 10
        [] l = "b" -> 11
        [] l = "c" -> 12
        [] l = "d" -> 13
        [] l = "e" -> 14
        [] l = "h" -> 15
        [] l = "m" -> 16
        [] l = "n" -> 17
        [] l = "o" -> 18
        [] l = "p" -> 19
        [] l = "s" -> 20
        [] l = "t" -> 21
        [] l = "x" -> 22
        [] OTHER -> 30

\* Tertiary weight: a lower-case letter before its upper-case form.
CaseRank(c) == IF LowerChar(c) = c THEN 0 ELSE 1

RECURSIVE LexCompare(_, _)
\* -1, 0 or 1: the order of two sequences of weights.
LexCompare(a, b) ==
  IF a = <<>> /\ b = <<>> THEN 0
  ELSE IF a = <<>> THEN -1
  ELSE IF b = <<>> THEN 1
  ELSE IF Head(a) < Head(b) THEN -1
  ELSE IF Head(a) > Head(b) THEN 1
  ELSE LexCompare(Tail(a), Tail(b))

\* String.prototype.localeCompare
LocaleCompare(a, b) ==
  LET primary == LexCompare([i \in 1..Len(a) |-> CollationRank(a[i])],
                            [i \in 1..Len(b) |-> CollationRank(b[i])])
  IN  IF primary # 0 THEN primary
      ELSE LexCompare([i \in 1..Len(a) |-> CaseRank(a[i])],
                      [i \in 1..Len(b) |-> CaseRank(b[i])])

\* Whether new Date(release_date) is a valid date.
ValidDate(d) == d[2] \in 1..12 /\ d[3] \in 1..31

\* The time value of new Date(release_date), in days.
DateValue(d) == (d[1] * 12 + (d[2] - 1)) * 31 + (d[3] - 1)

\* The comparators with the date comparator reversed (b - a).
CompareDateDescending(by, a, b) ==
  IF by = "title" THEN LocaleCompare(a.title, b.title)
  ELSE DateValue(b.release_date) - DateValue(a.release_date)

\* The comparator of handleSortByTitle ("title") or handleSortByReleaseDate.
Compare(by, a, b) ==
  IF by = "title" THEN LocaleCompare(a.title, b.title)
  ELSE DateValue(a.release_date) - DateValue(b.release_date)

RECURSIVE InsertBeforeEqual(_, _, _)
\* A sort that is not stable: x placed before the elements it ties with.
InsertBeforeEqual(by, sorted, x) ==
  IF sorted = <<>> THEN <<x>>
  ELSE IF Compare(by, Head(sorted), x) < 0
       THEN <<Head(sorted)>> \o InsertBeforeEqual(by, Tail(sorted), x)
       ELSE <<x>> \o sorted

RECURSIVE InsertStable(_, _, _)
\* x placed after every element that does not sort after it.
InsertStable(by, sorted, x) ==
  IF sorted = <<>> THEN <<x>>
  ELSE IF Compare(by, Head(sorted), x) <= 0
       THEN <<Head(sorted)>> \o InsertStable(by, Tail(sorted), x)
       ELSE <<x>> \o sorted

RECURSIVE SortBy(_, _)
\* [...games].sort(comparator)
SortBy(by, games) ==
  IF games = <<>> THEN <<>>
  ELSE InsertStable(by, SortBy(by, SubSeq(games, 1, Len(games) - 1)),
                    games[Len(games)])

(***************************************************************************)
(* The handlers and callbacks of GameList.                                 *)
(***************************************************************************)
\* The values the user types into a field.
KeyInputs ==
  [title |-> {<<>>, <<"m">>},
   developer |-> {},
   publisher |-> {},
   genre |-> {},
   platform |-> {<<>>, <<"n">>}]

\* The ways a request can end: a response of the server, a store failure
\* answered by the server, or no response at all.
Outcomes == {"ok", "storeError", "networkError"}

\* lines 29-45: the response of the request sent on mount.
MountFetchDone(outcome) ==
  /\ mountFetch = "pending"
  /\ mountFetch' = "done"
  /\ LET out == GetVideogames(catalog, ParseQuery(<<>>), outcome # "storeError")
         resp == out.sent[1]
     IN  videoGamesData' =
           IF outcome # "networkError" /\ resp.status = 200 /\ resp.kind = "rows"
           THEN resp.rows ELSE videoGamesData
  /\ lastEvent' = "mount"
  /\ UNCHANGED <<filteredGames, searchCriteria, selectedGameArtwork,
                 noResultsMessage, localFilteredGames, isTyping, debounced,
                 inFlight, issued, appliedSeq>>
  /\ UNCHANGED serverVars

\* handleSearch without the return of line 86: the empty case falls through
\* to the local filter and the debounced call.
HandleSearchNoReturn(c) ==
  LET filtered == LocalFilter(videoGamesData, c)
  IN  /\ filteredGames' = IF ~SomeCriteria(c) THEN <<>> ELSE filteredGames
      /\ localFilteredGames' = filtered
      /\ noResultsMessage' = IF Len(filtered) = 0 THEN NoResultsText ELSE ""
      /\ debounced' = <<c>>

\* lines 81-107: handleSearch as created by the render that saw criteria c.
HandleSearch(c) ==
  IF ~SomeCriteria(c)
  THEN /\ filteredGames' = <<>>
       /\ localFilteredGames' = <<>>
       /\ noResultsMessage' = PromptMessage
       /\ UNCHANGED debounced
  ELSE LET filtered == LocalFilter(videoGamesData, c)
       IN  /\ localFilteredGames' = filtered
           /\ noResultsMessage' = IF Len(filtered) = 0 THEN NoResultsText ELSE ""
           /\ debounced' = <<c>>
           /\ UNCHANGED filteredGames

\* line 172: the Search button.
SearchClick ==
  /\ HandleSearch(searchCriteria)
  /\ lastEvent' = "search"
  /\ UNCHANGED <<videoGamesData, searchCriteria, selectedGameArtwork, isTyping,
                 mountFetch, inFlight, issued, appliedSeq>>
  /\ UNCHANGED serverVars

\* lines 110-114: handleSearch is the callback of the current render, so it
\* reads the criteria as they were before this change.
HandleInputChange(field, value) ==
  /\ value # searchCriteria[field]
  /\ searchCriteria' = [searchCriteria EXCEPT ![field] = value]
  /\ isTyping' = TRUE
  /\ HandleSearch(searchCriteria)
  /\ inFlight' = {[r EXCEPT !.superseded = TRUE] : r \in inFlight}
  /\ lastEvent' = "input"
  /\ UNCHANGED <<videoGamesData, selectedGameArtwork, mountFetch, issued,
                 appliedSeq>>
  /\ UNCHANGED serverVars

\* A timer that fires and stays set: the call is made again at the next expiry.
DebounceExpiresKeepsPending ==
  /\ debounced # <<>>
  /\ issued < MaxIssued
  /\ debounced' = debounced
  /\ issued' = issued + 1
  /\ inFlight' = inFlight \cup
       {[seq |-> issued + 1, query |-> QueryString(debounced[1]),
         superseded |-> FALSE]}
  /\ lastEvent' = "expire"
  /\ UNCHANGED <<videoGamesData, filteredGames, searchCriteria,
                 selectedGameArtwork, noResultsMessage, localFilteredGames,
                 isTyping, mountFetch, appliedSeq>>
  /\ UNCHANGED serverVars

\* lines 75-78 and 50-61: the debounce timer expires and the request is sent.
DebounceExpires ==
  /\ debounced # <<>>
  /\ issued < MaxIssued
  /\ debounced' = <<>>
  /\ issued' = issued + 1
  /\ inFlight' = inFlight \cup
       {[seq |-> issued + 1, query |-> QueryString(debounced[1]),
         superseded |-> FALSE]}
  /\ lastEvent' = "expire"
  /\ UNCHANGED <<videoGamesData, filteredGames, searchCriteria,
                 selectedGameArtwork, noResultsMessage, localFilteredGames,
                 isTyping, mountFetch, appliedSeq>>
  /\ UNCHANGED serverVars

\* lines 63-66: whether the awaited response is applied.
Applies(r, outcome, resp) ==
  outcome = "ok" /\ resp.status = 200 /\ resp.kind = "rows"

\* lines 57-69: the awaited axios.get settles.
ResponseArrives(r, outcome) ==
  /\ r \in inFlight
  /\ inFlight' = inFlight \ {r}
  /\ LET out == GetVideogames(catalog, ParseQuery(r.query), outcome # "storeError")
         resp == out.sent[1]
     IN  IF Applies(r, outcome, resp)
         THEN /\ filteredGames' = resp.rows
              /\ isTyping' = FALSE
              /\ appliedSeq' = r.seq
              /\ lastEvent' = "response"
         ELSE /\ UNCHANGED <<filteredGames, isTyping, appliedSeq>>
              /\ lastEvent' = "failure"
  /\ UNCHANGED <<videoGamesData, searchCriteria, selectedGameArtwork,
                 noResultsMessage, localFilteredGames, mountFetch, debounced,
                 issued>>
  /\ UNCHANGED serverVars

RECURSIVE Reverse(_)
\* rows from last to first.
Reverse(rows) ==
  IF rows = <<>> THEN <<>> ELSE Reverse(Tail(rows)) \o <<Head(rows)>>

\* A sort handler that leaves the result set in descending order.
HandleSortReversing(by) ==
  /\ TableShown
  /\ filteredGames' = Reverse(SortBy(by, filteredGames))
  /\ lastEvent' = IF by = "title" THEN "sortTitle" ELSE "sortDate"
  /\ UNCHANGED <<videoGamesData, searchCriteria, selectedGameArtwork,
                 noResultsMessage, localFilteredGames, isTyping, mountFetch,
                 debounced, inFlight, issued, appliedSeq>>
  /\ UNCHANGED serverVars

\* A sort handler that also switches the table to the server result.
HandleSortShowsResult(by) ==
  /\ TableShown
  /\ filteredGames' = SortBy(by, filteredGames)
  /\ isTyping' = FALSE
  /\ lastEvent' = IF by = "title" THEN "sortTitle" ELSE "sortDate"
  /\ UNCHANGED <<videoGamesData, searchCriteria, selectedGameArtwork,
                 noResultsMessage, localFilteredGames, mountFetch, debounced,
                 inFlight, issued, appliedSeq>>
  /\ UNCHANGED serverVars

\* A sort handler that also schedules a server search for the criteria.
HandleSortSchedules(by) ==
  /\ TableShown
  /\ filteredGames' = SortBy(by, filteredGames)
  /\ debounced' = <<searchCriteria>>
  /\ lastEvent' = IF by = "title" THEN "sortTitle" ELSE "sortDate"
  /\ UNCHANGED <<videoGamesData, searchCriteria, selectedGameArtwork,
                 noResultsMessage, localFilteredGames, isTyping, mountFetch,
                 inFlight, issued, appliedSeq>>
  /\ UNCHANGED serverVars

\* lines 117-126: the sort buttons (line 176: shown with the table).
HandleSort(by) ==
  /\ TableShown
  /\ filteredGames' = SortBy(by, filteredGames)
  /\ lastEvent' = IF by = "title" THEN "sortTitle" ELSE "sortDate"
  /\ UNCHANGED <<videoGamesData, searchCriteria, selectedGameArtwork,
                 noResultsMessage, localFilteredGames, isTyping, mountFetch,
                 debounced, inFlight, issued, appliedSeq>>
  /\ UNCHANGED serverVars

HandleSortByTitle == HandleSort("title")

HandleSortByReleaseDate == HandleSort("date")

\* lines 129-135
ResolveArtwork(artwork_url) ==
  IF StartsWith(artwork_url, <<"h", "t", "t", "p">>)
  THEN artwork_url
  ELSE PublicUrl \o <<"/">> \o artwork_url

\* line 200: a click on the title of a displayed row.
HandleTitleClick(i) ==
  /\ i \in 1..Len(Displayed)
  /\ selectedGameArtwork' = ResolveArtwork(Displayed[i].artwork_url)
  /\ lastEvent' = "click"
  /\ UNCHANGED <<videoGamesData, filteredGames, searchCriteria,
                 noResultsMessage, localFilteredGames, isTyping, mountFetch,
                 debounced, inFlight, issued, appliedSeq>>
  /\ UNCHANGED serverVars

\* A close handler that leaves the selection as it is.
HandleCloseArtworkKeeps ==
  /\ selectedGameArtwork # Null
  /\ lastEvent' = "close"
  /\ UNCHANGED <<videoGamesData, filteredGames, searchCriteria,
                 selectedGameArtwork, noResultsMessage, localFilteredGames,
                 isTyping, mountFetch, debounced, inFlight, issued, appliedSeq>>
  /\ UNCHANGED serverVars

\* lines 211-216: the artwork modals in the rendered page.
ArtworkShown ==
  IF selectedGameArtwork # Null THEN {selectedGameArtwork} ELSE {}

\* lines 138-140 (line 211: the modal is rendered while an artwork is selected)
HandleCloseArtwork ==
  /\ selectedGameArtwork # Null
  /\ selectedGameArtwork' = Null
  /\ lastEvent' = "close"
  /\ UNCHANGED <<videoGamesData, filteredGames, searchCriteria,
                 noResultsMessage, localFilteredGames, isTyping, mountFetch,
                 debounced, inFlight, issued, appliedSeq>>
  /\ UNCHANGED serverVars

\* handleClear as it was before localFilteredGames existed.
HandleClearKeepsLocal ==
  /\ searchCriteria' = EmptyCriteria
  /\ filteredGames' = <<>>
  /\ noResultsMessage' = ""
  /\ lastEvent' = "clear"
  /\ UNCHANGED <<videoGamesData, selectedGameArtwork, isTyping, mountFetch,
                 debounced, inFlight, issued, appliedSeq, localFilteredGames>>
  /\ UNCHANGED serverVars

\* lines 143-154
HandleClear ==
  /\ searchCriteria' = EmptyCriteria
  /\ filteredGames' = <<>>
  /\ localFilteredGames' = <<>>
  /\ noResultsMessage' = ""
  /\ lastEvent' = "clear"
  /\ UNCHANGED <<videoGamesData, selectedGameArtwork, isTyping, mountFetch,
                 debounced, inFlight, issued, appliedSeq>>
  /\ UNCHANGED serverVars

ServerIdle ==
  /\ serverState = "listening"
  /\ srvReq = NoRequest
  /\ srvOut = NoOutcome

ClientIdle ==
  /\ videoGamesData = <<>>
  /\ filteredGames = <<>>
  /\ searchCriteria = EmptyCriteria
  /\ selectedGameArtwork = Null
  /\ noResultsMessage = ""
  /\ localFilteredGames = <<>>
  /\ isTyping = FALSE
  /\ mountFetch = "pending"
  /\ debounced = <<>>
  /\ inFlight = {}
  /\ issued = 0
  /\ appliedSeq = 0
  /\ lastEvent = "init"

\* The component as mounted, against a server that is listening.
Init ==
  /\ catalog = FullCatalog
  /\ ServerIdle
  /\ ClientIdle

\* Searching, debouncing, responses, sorting and clearing.
Next ==
  \/ \E o \in Outcomes : MountFetchDone(o)
  \/ \E f \in FieldSet : \E v \in KeyInputs[f] : HandleInputChange(f, v)
  \/ SearchClick
  \/ DebounceExpires
  \/ \E r \in inFlight : \E o \in Outcomes : ResponseArrives(r, o)
  \/ HandleSortByTitle
  \/ HandleSortByReleaseDate
  \/ HandleClear

Spec == Init /\ [][Next]_vars

\* The same with the artwork modal.
FullNext ==
  \/ Next
  \/ \E i \in 1..Len(FullCatalog) : HandleTitleClick(i)
  \/ HandleCloseArtwork

FullSpec == Init /\ [][FullNext]_vars

(***************************************************************************)
(* The client with the artwork modal, without the sort buttons and the     *)
(* search button.                                                          *)
(***************************************************************************)
ArtNext ==
  \/ \E outcome \in Outcomes : MountFetchDone(outcome)
  \/ \E field \in FieldSet : \E value \in KeyInputs[field] :
       HandleInputChange(field, value)
  \/ DebounceExpires
  \/ \E r \in inFlight : \E outcome \in Outcomes : ResponseArrives(r, outcome)
  \/ \E i \in 1..Len(FullCatalog) : HandleTitleClick(i)
  \/ HandleCloseArtwork
  \/ HandleClear

ArtSpec == Init /\ [][ArtNext]_vars

(***************************************************************************)
(* The client when the server answers every request: the mount fetch and   *)
(* every search request succeed.  A timer that is set fires and a request  *)
(* that is sent is answered, hence the weak fairness of the two callbacks. *)
(***************************************************************************)
LiveNext ==
  \/ MountFetchDone("ok")
  \/ \E field \in FieldSet : \E value \in KeyInputs[field] :
       HandleInputChange(field, value)
  \/ SearchClick
  \/ DebounceExpires
  \/ \E r \in inFlight : ResponseArrives(r, "ok")
  \/ HandleClear

LiveSpec ==
  /\ Init
  /\ [][LiveNext]_vars
  /\ WF_vars(MountFetchDone("ok"))
  /\ WF_vars(DebounceExpires)
  /\ WF_vars(\E r \in inFlight : ResponseArrives(r, "ok"))

(***************************************************************************)
(* The client with the sort buttons and the artwork modal when the server  *)
(* answers every request, without the Search and Clear buttons.            *)
(***************************************************************************)
FrameNext ==
  \/ MountFetchDone("ok")
  \/ \E field \in FieldSet : \E value \in KeyInputs[field] :
       HandleInputChange(field, value)
  \/ DebounceExpires
  \/ \E r \in inFlight : ResponseArrives(r, "ok")
  \/ HandleSortByTitle
  \/ HandleSortByReleaseDate
  \/ \E i \in 1..Len(FullCatalog) : HandleTitleClick(i)
  \/ HandleCloseArtwork

FrameSpec == Init /\ [][FrameNext]_vars

(***************************************************************************)
(* One search on its own, for any of FilterCriteria over any of Catalogs:  *)
(* the criteria were typed while the dataset was loading and the request   *)
(* made for them failed; the dataset has loaded since.  The Search button  *)
(* filters locally and schedules the request, which the server answers.    *)
(***************************************************************************)
FilterCriteria ==
  {c \in [title : {<<>>, <<"m">>, <<"M">>, <<"_">>, <<"%">>},
          developer : {<<>>, <<"d">>},
          publisher : {<<>>},
          genre : {<<>>},
          platform : {<<>>, <<"n">>, <<"s">>}] : SomeCriteria(c)}

FilterInit ==
  /\ catalog \in Catalogs
  /\ ServerIdle
  /\ videoGamesData = catalog
  /\ mountFetch = "done"
  /\ searchCriteria \in FilterCriteria
  /\ selectedGameArtwork = Null
  /\ noResultsMessage = NoResultsText
  /\ localFilteredGames = <<>>
  /\ filteredGames = <<>>
  /\ isTyping = TRUE
  /\ debounced = <<>>
  /\ inFlight = {}
  /\ issued = 1
  /\ appliedSeq = 0
  /\ lastEvent = "failure"

FilterNext ==
  \/ SearchClick
  \/ DebounceExpires
  \/ \E r \in inFlight : ResponseArrives(r, "ok")

FilterSpec == FilterInit /\ [][FilterNext]_vars

(***************************************************************************)
(* One search request on its own: a debounced call is pending for any of   *)
(* RequestCriteria after Clear, with or without an earlier response        *)
(* applied since; the timer expires and the request settles.               *)
(***************************************************************************)
RequestCriteria ==
  {c \in [title : {<<>>, <<"m">>, <<" ">>, <<"%", "2", "0">>},
          developer : {<<>>, <<"D">>},
          publisher : {<<>>},
          genre : {<<>>, <<"p", ":">>},
          platform : {<<>>, <<"n">>, <<"s">>}] : SomeCriteria(c)}

RequestInit ==
  /\ catalog = FullCatalog
  /\ ServerIdle
  /\ videoGamesData = FullCatalog
  /\ mountFetch = "done"
  /\ searchCriteria = EmptyCriteria
  /\ selectedGameArtwork = Null
  /\ noResultsMessage = ""
  /\ localFilteredGames = <<>>
  /\ debounced \in {<<c>> : c \in RequestCriteria}
  /\ inFlight = {}
  /\ \/ /\ filteredGames = <<>>
        /\ isTyping = TRUE
        /\ issued = 0
        /\ appliedSeq = 0
        /\ lastEvent = "clear"
     \/ /\ filteredGames = <<G3>>
        /\ isTyping = FALSE
        /\ issued = 1
        /\ appliedSeq = 1
        /\ lastEvent = "response"

RequestNext ==
  \/ DebounceExpires
  \/ \E r \in inFlight : \E outcome \in Outcomes : ResponseArrives(r, outcome)

RequestSpec == RequestInit /\ [][RequestNext]_vars

(***************************************************************************)
(* The sort handlers on their own, over every result set of up to MaxRows  *)
(* records of SortPool in any order.                                       *)
(***************************************************************************)
SortPool == {G1, G2, G3, G4, G5}

SortInputs ==
  {rows \in UNION {[1..n -> SortPool] : n \in 1..MaxRows} :
     \A i, j \in 1..Len(rows) : rows[i] = rows[j] => i = j}

SortInit ==
  /\ catalog = <<G1, G2, G3, G4, G5>>
  /\ ServerIdle
  /\ videoGamesData = <<>>
  /\ filteredGames \in SortInputs
  /\ searchCriteria = EmptyCriteria
  /\ selectedGameArtwork = Null
  /\ noResultsMessage = ""
  /\ localFilteredGames = <<>>
  /\ isTyping = FALSE
  /\ mountFetch = "pending"
  /\ debounced = <<>>
  /\ inFlight = {}
  /\ issued = 0
  /\ appliedSeq = 0
  /\ lastEvent = "init"

SortNext ==
  \/ HandleSortByTitle
  \/ HandleSortByReleaseDate

SortSpec == SortInit /\ [][SortNext]_vars

(***************************************************************************)
(* The server on its own: startServer, then requests to the three read     *)
(* endpoints, over each catalog.                                           *)
(***************************************************************************)
\* lines 77-91 and 187-190: the connection is made, or the process exits.
StartServer(connected) ==
  /\ serverState = "starting"
  /\ serverState' = IF connected THEN "listening" ELSE "exited"
  /\ UNCHANGED <<catalog, srvReq, srvOut>>
  /\ UNCHANGED clientVars

\* A handler has run: what it sent, and whether the process is still there.
Served(req, out) ==
  /\ serverState = "listening"
  /\ srvReq' = req
  /\ srvOut' = out
  /\ serverState' = IF out.exit THEN "exited" ELSE serverState
  /\ UNCHANGED catalog
  /\ UNCHANGED clientVars

ServeList(q, storeOk) ==
  Served([route |-> "list", q |-> q, id |-> 0, storeOk |-> storeOk],
         GetVideogames(catalog, q, storeOk))

ServeById(id, storeOk) ==
  Served([route |-> "byId", q |-> <<>>, id |-> id, storeOk |-> storeOk],
         GetVideogameById(catalog, id, storeOk))

ServeArtwork(id, storeOk) ==
  Served([route |-> "artwork", q |-> <<>>, id |-> id, storeOk |-> storeOk],
         GetArtwork(catalog, id, storeOk))

ServerInit ==
  /\ catalog \in Catalogs
  /\ serverState = "starting"
  /\ srvReq = NoRequest
  /\ srvOut = NoOutcome
  /\ ClientIdle

ServerNext ==
  \/ \E c \in BOOLEAN : StartServer(c)
  \/ \E q \in Queries : \E ok \in BOOLEAN : ServeList(q, ok)
  \/ \E id \in Ids : \E ok \in BOOLEAN : ServeById(id, ok)
  \/ \E id \in Ids : \E ok \in BOOLEAN : ServeArtwork(id, ok)

ServerSpec == ServerInit /\ [][ServerNext]_vars


(***************************************************************************)
(* Properties.                                                             *)
(***************************************************************************)
\* The request r of the current state settles in this step.
Completes(r) == \A s \in inFlight' : s.seq # r.seq

\* C1: the completion of a request that is no longer the most recent one (a
\* later-issued request's response has already been applied) is discarded:
\* it changes neither filteredGames nor what is displayed.
C1_StaleResponseDiscarded ==
  [][\A r \in inFlight :
       (Completes(r) /\ r.seq < appliedSeq) =>
          (filteredGames' = filteredGames /\ Displayed' = Displayed)]_vars

\* C2: when the response of a request that was in flight during a later
\* keystroke completes while the local filter result is on screen, the
\* displayed set stays the local filter result.
C2_LocalFilterPrecedence ==
  [][\A r \in inFlight :
       (Completes(r) /\ r.superseded /\ isTyping) =>
          Displayed' = Displayed]_vars

\* C3: a Search with every field empty ends in the prompt state with both
\* result sets empty, and neither sends nor schedules a request.
C3_EmptySearchPrompts ==
  [][(lastEvent' = "search" /\ ~SomeCriteria(searchCriteria)) =>
       /\ noResultsMessage' = PromptMessage
       /\ filteredGames' = <<>>
       /\ localFilteredGames' = <<>>
       /\ debounced' = debounced
       /\ inFlight' = inFlight
       /\ issued' = issued]_vars

\* A Search with empty criteria has run while a debounced call was pending.
C3_Witness ==
  /\ lastEvent = "search"
  /\ ~SomeCriteria(searchCriteria)
  /\ noResultsMessage = PromptMessage
  /\ debounced # <<>>

\* The catalog records whose fields contain every supplied value as a
\* case-insensitive substring.
SubstringMatches(rows, q) ==
  SelectSeq(rows,
            LAMBDA g : \A f \in FieldSet :
              Truthy(q[f]) => Includes(ToLowerCase(g[f]), ToLowerCase(q[f])))

\* C4: GET /videogames with at least one non-empty filter returns exactly the
\* records whose fields contain each supplied value as a case-insensitive
\* substring.
C4_ExactSubstringMatch ==
  (/\ srvReq.route = "list"
   /\ srvReq.storeOk
   /\ \E f \in FieldSet : Truthy(srvReq.q[f]))
  => srvOut.sent = <<Rows200(SubstringMatches(catalog, srvReq.q))>>

\* C5: GET /videogames with none of the five parameters builds the bare
\* SELECT with no bound parameter and returns the whole catalog.
C5_NoParamsFullCatalog ==
  (/\ srvReq.route = "list"
   /\ \A f \in FieldSet : srvReq.q[f] = Undefined)
  => /\ srvOut.text = <<SelectAll>>
     /\ srvOut.params = <<>>
     /\ srvReq.storeOk => srvOut.sent = <<Rows200(catalog)>>

C5_Witness ==
  /\ srvReq.route = "list"
  /\ \A f \in FieldSet : srvReq.q[f] = Undefined
  /\ srvReq.storeOk
  /\ catalog = FullCatalog
  /\ srvOut.sent = <<Rows200(FullCatalog)>>

\* A value that is empty or holds only whitespace.
IsBlank(v) == v # Undefined /\ \A i \in 1..Len(v) : v[i] = " "

\* The request with its blank parameters left out.
WithoutBlanks(q) == [f \in FieldSet |-> IF IsBlank(q[f]) THEN Undefined ELSE q[f]]

\* C6: a filter parameter that is empty or whitespace-only adds no condition:
\* the query and the answer are those of the request without that parameter.
C6_BlankIsNoConstraint ==
  srvReq.route = "list" =>
    srvOut = GetVideogames(catalog, WithoutBlanks(srvReq.q), srvReq.storeOk)

\* C7: for an id absent from the store, when the query succeeds, both by-id
\* endpoints answer 'Game not found' and not the 500 'Database error'; the
\* 500 response is sent only when the query throws.
C7_UnknownIdNotFound ==
  srvReq.route \in {"byId", "artwork"} =>
    /\ (srvReq.storeOk /\ SelectById(catalog, srvReq.id) = <<>>) =>
         /\ Len(srvOut.sent) = 1
         /\ srvOut.sent[1].kind = "message"
         /\ srvOut.sent[1].text = <<"Game not found">>
         /\ srvOut.sent[1].status # 500
    /\ (\E i \in 1..Len(srvOut.sent) : srvOut.sent[i].status = 500) =>
         ~srvReq.storeOk

\* The artwork of an id that is in no row was asked for, and the query ran.
C7_Witness ==
  /\ srvReq.route = "artwork"
  /\ srvReq.storeOk
  /\ catalog = FullCatalog
  /\ SelectById(catalog, srvReq.id) = <<>>
  /\ srvOut.sent = <<NotFound(404)>>

\* C8: a failing store query is answered with exactly one 500 'Database
\* error' response without records, is not retried, and leaves the server
\* listening.
C8_StoreFailureGeneric500 ==
  (srvReq.route # "none" /\ ~srvReq.storeOk) =>
    /\ Len(srvOut.sent) = 1
    /\ srvOut.sent[1].status = 500
    /\ srvOut.sent[1].kind = "error"
    /\ srvOut.sent[1].text = <<"Database error">>
    /\ srvOut.sent[1].rows = <<>>
    /\ srvOut.queries = 1
    /\ serverState = "listening"

C8_Witness ==
  /\ srvReq.route = "list"
  /\ ~srvReq.storeOk
  /\ catalog = FullCatalog
  /\ srvOut.sent = <<DatabaseError>>
  /\ serverState = "listening"

\* C9: after a failed search request an error message is shown and no record
\* from before the request remains on screen.
C9_FailureClearsResults ==
  lastEvent = "failure" =>
    /\ noResultsMessage \notin {"", PromptMessage, NoResultsText}
    /\ MessageShown
    /\ filteredGames = <<>>
    /\ Displayed = <<>>

\* C10: Clear leaves all five criteria empty, both result sets empty and the
\* message empty.
C10_ClearResets ==
  lastEvent = "clear" =>
    /\ \A f \in FieldSet : searchCriteria[f] = <<>>
    /\ filteredGames = <<>>
    /\ localFilteredGames = <<>>
    /\ noResultsMessage = ""

\* Clear has run on a loaded component while a response was awaited and the
\* user had typed.
C10_Witness ==
  /\ lastEvent = "clear"
  /\ videoGamesData # <<>>
  /\ isTyping
  /\ inFlight # {}
  /\ searchCriteria = EmptyCriteria
  /\ localFilteredGames = <<>>


\* The position of record g in rows.
Pos(rows, g) == CHOOSE i \in 1..Len(rows) : rows[i] = g

\* after holds the records of before, in ascending order of the key, with
\* the records that tie in the order they had in before.
SortedStable(by, before, after) ==
  /\ Len(after) = Len(before)
  /\ \A i \in 1..Len(before) : \E j \in 1..Len(after) : after[j] = before[i]
  /\ \A i, j \in 1..Len(after) :
       i < j =>
         IF by = "title"
         THEN LocaleCompare(after[i].title, after[j].title) <= 0
         ELSE DateValue(after[i].release_date) <= DateValue(after[j].release_date)
  /\ \A i, j \in 1..Len(before) :
       (/\ i < j
        /\ IF by = "title" THEN before[i].title = before[j].title
           ELSE before[i].release_date = before[j].release_date)
       => Pos(after, before[i]) < Pos(after, before[j])

\* C11: sort by title leaves the result set in ascending title order, with
\* records of equal title in their order from before the sort.
C11_SortByTitleStable ==
  [][lastEvent' = "sortTitle" =>
       SortedStable("title", filteredGames, filteredGames')]_vars

\* A sort by title has run on three records, two of which share a title.
C11_Witness ==
  /\ lastEvent = "sortTitle"
  /\ filteredGames = <<G2, G4, G1>>

\* C12: sort by release date leaves the result set in ascending date order,
\* with records of equal date in their order from before the sort, when every
\* release date is a valid date.
C12_SortByDateStable ==
  [][(/\ lastEvent' = "sortDate"
      /\ \A i \in 1..Len(filteredGames) :
           ValidDate(filteredGames[i].release_date))
     => SortedStable("date", filteredGames, filteredGames')]_vars

\* A sort by release date has run on three records, two of which share a date.
C12_Witness ==
  /\ lastEvent = "sortDate"
  /\ filteredGames = <<G4, G5, G2>>

\* C13: the result of a sort is left as it is by the same sort again.
C13_SortIdempotent ==
  /\ lastEvent = "sortTitle" => SortBy("title", filteredGames) = filteredGames
  /\ lastEvent = "sortDate" => SortBy("date", filteredGames) = filteredGames

\* A sort has run on three records that were given in another order.
C13_Witness ==
  /\ lastEvent \in {"sortTitle", "sortDate"}
  /\ filteredGames = <<G2, G5, G3>>

\* C14: a sort changes neither the pending debounced call nor the requests
\* in flight, and issues no request.
C14_SortIssuesNoRequest ==
  [][lastEvent' \in {"sortTitle", "sortDate"} =>
       /\ debounced' = debounced
       /\ inFlight' = inFlight
       /\ issued' = issued]_vars

\* A sort has run while a debounced call was pending and a request in flight.
C14_Witness ==
  /\ lastEvent \in {"sortTitle", "sortDate"}
  /\ debounced # <<>>
  /\ inFlight # {}

\* An artwork_url that is an absolute reference: it has the scheme "http:".
IsAbsolute(artwork_url) == StartsWith(artwork_url, <<"h", "t", "t", "p", ":">>)

\* The reference the specification selects for artwork_url.
ResolvedReference(artwork_url) ==
  IF IsAbsolute(artwork_url) THEN artwork_url
  ELSE PublicUrl \o <<"/">> \o artwork_url

\* C15: a click on a title selects the record's artwork_url unchanged when it
\* is absolute, and PUBLIC_URL + "/" + artwork_url when it is relative.
C15_ArtworkResolved ==
  [][lastEvent' = "click" =>
       \E i \in 1..Len(Displayed) :
         selectedGameArtwork' = ResolvedReference(Displayed[i].artwork_url)]_vars

\* C16: at most one artwork is shown; a click on a title makes that row's
\* artwork the selection whatever was selected; close leaves none selected.
C16_SingleArtwork ==
  [][/\ Cardinality(ArtworkShown') <= 1
     /\ lastEvent' = "click" =>
          /\ selectedGameArtwork' # Null
          /\ \E i \in 1..Len(Displayed) :
               selectedGameArtwork' = ResolveArtwork(Displayed[i].artwork_url)
     /\ lastEvent' = "close" =>
          /\ selectedGameArtwork' = Null
          /\ ArtworkShown' = {}]_vars

\* A title of a two-row table has been clicked and its artwork is shown.
C16_Witness ==
  /\ lastEvent = "click"
  /\ Len(Displayed) = 2
  /\ ArtworkShown = {ResolveArtwork(G2.artwork_url)}

\* C17: when a server search succeeds with no records, the no-results
\* message is set and shown and no row is displayed.
C17_EmptyResponseShowsNoResults ==
  [][\A r \in inFlight :
       (/\ Completes(r)
        /\ lastEvent' = "response"
        /\ filteredGames' = <<>>)
       => /\ noResultsMessage' = NoResultsText
          /\ MessageShown'
          /\ Displayed' = <<>>]_vars

\* The query string qs has one parameter for each non-empty field of the
\* criteria c, with the field's value, and no other parameter.
Carries(qs, c) ==
  /\ Len(qs) = Cardinality({f \in FieldSet : c[f] # <<>>})
  /\ \A i \in 1..Len(qs) :
       /\ qs[i][1] \in FieldSet
       /\ c[qs[i][1]] # <<>>
       /\ DecodeURIComponent(qs[i][2]) = c[qs[i][1]]
  /\ \A i, j \in 1..Len(qs) : qs[i][1] = qs[j][1] => i = j

C19_KeystrokeUsesNewCriteria ==
  (lastEvent = "input" /\ SomeCriteria(searchCriteria)) =>
    /\ localFilteredGames = LocalFilter(videoGamesData, searchCriteria)
    /\ debounced = <<searchCriteria>>

\* The client as Clear leaves it: no criteria, no results, no message.
Idle ==
  /\ searchCriteria = EmptyCriteria
  /\ filteredGames = <<>>
  /\ localFilteredGames = <<>>
  /\ noResultsMessage = ""

\* C20: once Clear has left the client idle, a debounce expiry or a response
\* leaves the result set empty and the displayed rows as they are.
C20_StaysIdleAfterClear ==
  [][(/\ Idle
      /\ lastEvent \in {"clear", "expire", "response", "failure"}
      /\ lastEvent' \in {"expire", "response", "failure"})
     => /\ filteredGames' = <<>>
        /\ Displayed' = Displayed]_vars

\* The records the server returns for the criteria c.
ServerAnswer(c) ==
  GetVideogames(catalog, ParseQuery(QueryString(c)), TRUE).sent[1].rows

\* The displayed rows are the server's answer for the criteria in the fields.
Reconciled == ~isTyping /\ Displayed = ServerAnswer(searchCriteria)

\* C21: if from some point on the user makes no input and the criteria are
\* not empty, then from some point on the displayed rows are the server's
\* answer for those criteria and isTyping is false (behaviours that use up
\* the MaxIssued requests are left out).
C21_Reconciliation ==
  <>[][lastEvent' \notin {"input", "search", "clear"}]_vars
    => <>[](SomeCriteria(searchCriteria) => (Reconciled \/ issued = MaxIssued))

\* C22: when the server's answer for the criteria has been applied, it is
\* the set the local filter gave for the same criteria over the same dataset.
C22_LocalFilterEqualsServer ==
  (lastEvent = "response" /\ SomeCriteria(searchCriteria)) =>
    filteredGames = localFilteredGames

\* The sequence numbers of the requests in flight.
Seqs(requests) == {r.seq : r \in requests}

\* C23: a search trigger issues no request and leaves its criteria as the
\* one pending call, replacing the call of an earlier trigger; a request is
\* issued only when the timer expires, one per expiry, for the criteria of
\* the last trigger, and no call is pending afterwards.
C23_OneRequestPerBurst ==
  [][/\ (lastEvent' \in {"input", "search"} /\ SomeCriteria(searchCriteria)) =>
          /\ debounced' = <<searchCriteria>>
          /\ issued' = issued
          /\ Seqs(inFlight') = Seqs(inFlight)
     /\ lastEvent' = "expire" =>
          /\ debounced # <<>>
          /\ debounced' = <<>>
          /\ issued' = issued + 1
          /\ \E r \in inFlight' :
               /\ inFlight' = inFlight \cup {r}
               /\ r \notin inFlight
               /\ r.query = QueryString(debounced[1])
     /\ (issued' # issued \/ Seqs(inFlight') \ Seqs(inFlight) # {}) =>
          lastEvent' = "expire"]_vars

\* Two triggers, for {title m} and then for {title m, platform n}, were
\* followed by one expiry: one request, for the second trigger's criteria.
C23_Witness ==
  /\ lastEvent = "expire"
  /\ issued = 1
  /\ debounced = <<>>
  /\ Seqs(inFlight) = {1}
  /\ \A r \in inFlight :
       r.query = <<<<"title", <<"m">>>>, <<"platform", <<"n">>>>>>

\* rows are in ascending order of the key.
Ascending(by, rows) ==
  \A i, j \in 1..Len(rows) :
    i < j =>
      IF by = "title"
      THEN LocaleCompare(rows[i].title, rows[j].title) <= 0
      ELSE DateValue(rows[i].release_date) <= DateValue(rows[j].release_date)

\* C24: right after a sort the displayed rows are in ascending order of the
\* sort key, whichever set is displayed.
C24_SortOrdersDisplayed ==
  [][/\ lastEvent' = "sortTitle" => Ascending("title", Displayed')
     /\ lastEvent' = "sortDate" => Ascending("date", Displayed')]_vars

\* The number of "?" placeholders in a query text.
RECURSIVE Placeholders(_)
Placeholders(text) ==
  IF text = <<>> THEN 0
  ELSE (IF \E f \in FieldSet : LikeCond[f] = Head(text) THEN 1 ELSE 0)
       + Placeholders(Tail(text))

\* The filter fields a request gives a non-empty value.
ActiveFields(q) == {f \in FieldSet : q[f] # Undefined /\ q[f] # <<>>}

\* C25: the query text of GET /videogames has one placeholder per bound
\* parameter and one per non-empty filter field, and is the text built for
\* every request with the same non-empty fields whatever their values.
C25_OnePlaceholderPerField ==
  srvReq.route = "list" =>
    /\ Placeholders(srvOut.text) = Len(srvOut.params)
    /\ Len(srvOut.params) = Cardinality(ActiveFields(srvReq.q))
    /\ \A q \in Queries :
         ActiveFields(q) = ActiveFields(srvReq.q) =>
           BuildQuery(q).text = srvOut.text

\* A request with two filters, one of them the value "_", has been served.
C25_Witness ==
  /\ srvReq.route = "list"
  /\ srvReq.q.title = <<"_">>
  /\ srvReq.q.platform = <<"s">>
  /\ Len(srvOut.params) = 2

\* C26: a rendered table has at least one row, and with criteria given and
\* no request pending either a row or the message is rendered.
C26_TableOrMessage ==
  /\ TableShown => Len(Rows) >= 1
  /\ (/\ Displayed = <<>>
      /\ SomeCriteria(searchCriteria)
      /\ debounced = <<>>
      /\ inFlight = {})
     => MessageShown

\* How many times the record g occurs in rows.
Count(rows, g) == Cardinality({i \in 1..Len(rows) : rows[i] = g})

\* C27: a sort leaves in filteredGames the records it held, each as many
\* times, and leaves the criteria, the dataset, the locally filtered set,
\* the message, isTyping and the selected artwork as they were.
C27_SortFrame ==
  [][lastEvent' \in {"sortTitle", "sortDate"} =>
       /\ Len(filteredGames') = Len(filteredGames)
       /\ \A i \in 1..Len(filteredGames) :
            Count(filteredGames', filteredGames[i])
              = Count(filteredGames, filteredGames[i])
       /\ UNCHANGED <<searchCriteria, videoGamesData, localFilteredGames,
                      noResultsMessage, isTyping, selectedGameArtwork>>]_vars

\* A sort has run on a two-record result set while criteria were given, the
\* local filter result was displayed and an artwork was selected.
C27_Witness ==
  /\ lastEvent \in {"sortTitle", "sortDate"}
  /\ Len(filteredGames) = 2
  /\ SomeCriteria(searchCriteria)
  /\ isTyping
  /\ localFilteredGames # <<>>
  /\ selectedGameArtwork # Null

====
